---- MODULE Spec2Model ----
(***************************************************************************)
(* A model of parallel_zip.py: the combination generator (zipper), the     *)
(* template expander (parse_command / eval_zippered), the command          *)
(* normalizer and runner call (execute_command) and the orchestrator       *)
(* (parallel_zip).                                                         *)
(*                                                                         *)
(* Text is a sequence of one-character strings, so that str.replace,       *)
(* re.findall and str.strip work on characters as they do in Python.       *)
(* A Python value is a tagged tuple <<kind, payload>>.  A Python dict is   *)
(* a sequence of <<key, value>> pairs in insertion order.                  *)
(***************************************************************************)
EXTENDS Integers, Sequences, FiniteSets, TLC

VARIABLES
    pc,          \* position of the call that is being modelled
    entry,       \* the function the caller invoked
    pieces,      \* the command template, as the pieces it was written from
    named_vals,  \* **named_vals of the call: ordered <<key, value>> pairs
    cross,       \* the cross argument of the call
    verbose,     \* the flags of the call
    lines,
    dry_run,
    strict,
    java_memory,
    frames,      \* the caller's frames, closest first: <<f_locals, f_globals>>
    zres,        \* what zipper produced: <<"ok", mappings>> or <<"raise", E>>
    cmds,        \* what parse_command produced
    environ,     \* os.environ['_JAVA_OPTIONS'], or None when it is not set
    old_setting, \* the local old_setting of parallel_zip, or None when unbound
    proc_cmds,   \* the processed commands of execute_command
    proc,        \* the completed process of the runner
    runs,        \* the runner invocations made so far
    ret,         \* what the call returned or raised
    printed,     \* what the call printed
    prior_environ, \* os.environ['_JAVA_OPTIONS'] as it was when the call began
    kwargs       \* the keyword arguments of a Cross call, or None without one

zipVars  == <<named_vals, cross>>
callVars == <<entry, pieces, verbose, lines, dry_run, strict, java_memory, frames,
             prior_environ, kwargs>>
runVars  == <<environ, old_setting, proc_cmds, proc, runs, ret, printed>>
vars == <<pc, entry, pieces, named_vals, cross, verbose, lines, dry_run, strict,
          java_memory, frames, zres, cmds, environ, old_setting, proc_cmds, proc,
          runs, ret, printed, prior_environ, kwargs>>

(***************************************************************************)
(* Bounds                                                                  *)
(***************************************************************************)
MaxLen == 3      \* longest value list supplied for one parameter
MaxGroups == 2   \* most cross groups declared in one call

(***************************************************************************)
(* Python values                                                           *)
(***************************************************************************)
IntV(n)    == <<"int", n>>
StrV(s)    == <<"str", s>>
ListV(xs)  == <<"list", xs>>
TupleV(xs) == <<"tuple", xs>>
DictV(kvs) == <<"dict", kvs>>
NoneV      == <<"none">>
Kind(v)    == v[1]

Ok(v)      == <<"ok", v>>
Raise(e)   == <<"raise", e>>
IsOk(r)    == r[1] = "ok"
Raised(r)  == r[1] = "raise"

DigitChars == <<"0", "1", "2", "3", "4", "5", "6", "7", "8", "9">>

RECURSIVE IntToText(_)
IntToText(n) ==
    IF n < 10 THEN <<DigitChars[n + 1]>>
    ELSE IntToText(n \div 10) \o <<DigitChars[(n % 10) + 1]>>

\* str(value) for the scalar values the model supplies
Str(v) == IF Kind(v) = "int" THEN IntToText(v[2]) ELSE v[2]

(***************************************************************************)
(* Ordered dicts                                                           *)
(***************************************************************************)
DictKeys(d)   == {d[i][1] : i \in DOMAIN d}
DictHas(d, k) == \E i \in DOMAIN d : d[i][1] = k
DictGet(d, k) == d[CHOOSE i \in DOMAIN d : d[i][1] = k][2]
\* d[k] = v that leaves a key already present as it is
DictSet_keep(d, k, v) ==
    IF DictHas(d, k) THEN d ELSE Append(d, <<k, v>>)

DictSet(d, k, v) ==
    IF DictHas(d, k)
    THEN [i \in DOMAIN d |-> IF d[i][1] = k THEN <<k, v>> ELSE d[i]]
    ELSE Append(d, <<k, v>>)

\* a | b and dict(a, **b): b's entries written into a, one after another
RECURSIVE DictUnion(_, _)
DictUnion(a, b) ==
    IF b = <<>> THEN a
    ELSE DictUnion(DictSet(a, Head(b)[1], Head(b)[2]), Tail(b))

SeqMax(ns) == CHOOSE m \in {ns[i] : i \in DOMAIN ns} :
                  \A i \in DOMAIN ns : ns[i] <= m
SeqMin(ns) == CHOOSE m \in {ns[i] : i \in DOMAIN ns} :
                  \A i \in DOMAIN ns : ns[i] >= m

RECURSIVE Flatten(_)
Flatten(ss) == IF ss = <<>> THEN <<>> ELSE Head(ss) \o Flatten(Tail(ss))

\* Cross with the groups in reverse order of declaration
Cross_reversed(kw) ==
    ListV([i \in DOMAIN kw[2] |-> DictV(<<kw[2][Len(kw[2]) + 1 - i]>>)])

\* line 53: one single-key dict per keyword argument, in the order given
Cross(kw) ==
    ListV([i \in DOMAIN kw[2] |-> DictV(<<kw[2][i]>>)])

(***************************************************************************)
(* zipper                                                                  *)
(***************************************************************************)
isiter(values) == Kind(values) \in {"list", "tuple", "dict"}

\* list(values) of an iterable: a dict iterates over its keys
AsList(values) ==
    IF Kind(values) = "dict"
    THEN [i \in DOMAIN values[2] |-> StrV(values[2][i][1])]
    ELSE values[2]

\* line 113: every value becomes a list
NamedProc(nv) ==
    [i \in DOMAIN nv |->
        <<nv[i][1], IF isiter(nv[i][2]) THEN AsList(nv[i][2]) ELSE <<nv[i][2]>> >>]

\* lines 114-116: the lengths above one must all be the same
NamedLengths(nv) ==
    {Len(NamedProc(nv)[i][2]) : i \in {j \in DOMAIN nv : Len(NamedProc(nv)[j][2]) > 1}}

\* lines 115-116 left out: no length is ever found incompatible
NamedValsMismatch_never(nv) == FALSE

NamedValsMismatch(nv) == nv # <<>> /\ Cardinality(NamedLengths(nv)) > 1

\* process_named_vals without line 118: singletons are not broadcast
process_named_vals_nobroadcast(nv) ==
    IF nv = <<>> THEN << <<>>, << <<>> >> >>
    ELSE
      LET processed == NamedProc(nv)
          n    == SeqMin([i \in DOMAIN processed |-> Len(processed[i][2])])
      IN  << [i \in DOMAIN processed |-> processed[i][1]],
             [j \in 1..n |-> [i \in DOMAIN processed |-> processed[i][2][j]]] >>

\* lines 112, 117-121: broadcast the singletons, then zip
process_named_vals(nv) ==
    IF nv = <<>> THEN << <<>>, << <<>> >> >>
    ELSE
      LET processed   == NamedProc(nv)
          maxlen == SeqMax([i \in DOMAIN processed |-> Len(processed[i][2])])
          bro    == [i \in DOMAIN processed |->
                       IF Len(processed[i][2]) = 1 /\ maxlen > 1
                       THEN [j \in 1..maxlen |-> processed[i][2][1]]
                       ELSE processed[i][2]]
          n      == SeqMin([i \in DOMAIN bro |-> Len(bro[i])])
      IN  << [i \in DOMAIN processed |-> processed[i][1]],
             [j \in 1..n |-> [i \in DOMAIN bro |-> bro[i][j]]] >>

\* line 129 with a str value iterated like a list, character by character
cross_items_iterstr(cross_dict) ==
    IF Kind(cross_dict[1][2]) = "str"
    THEN [j \in DOMAIN cross_dict[1][2][2] |->
             <<cross_dict[1][1], <<cross_dict[1][2][2][j]>> >>]
    ELSE IF ~isiter(cross_dict[1][2])
    THEN [i \in DOMAIN cross_dict |-> <<cross_dict[i][1], Str(cross_dict[i][2])>>]
    ELSE Flatten([i \in DOMAIN cross_dict |->
                    [j \in DOMAIN AsList(cross_dict[i][2]) |->
                        <<cross_dict[i][1], Str(AsList(cross_dict[i][2])[j])>>]])

\* line 129: the one-entry mappings of one cross group
cross_items(cross_dict) ==
    IF ~isiter(cross_dict[1][2])
    THEN [i \in DOMAIN cross_dict |-> <<cross_dict[i][1], Str(cross_dict[i][2])>>]
    ELSE Flatten([i \in DOMAIN cross_dict |->
                    [j \in DOMAIN AsList(cross_dict[i][2]) |->
                        <<cross_dict[i][1], Str(AsList(cross_dict[i][2])[j])>>]])

\* line 130 with its two loops exchanged: for ci in cross_items for r in result
CrossStep_swapped(result, items) ==
    [k \in 1..(Len(result) * Len(items)) |->
        DictSet(result[((k - 1) % Len(result)) + 1],
                items[((k - 1) \div Len(result)) + 1][1],
                items[((k - 1) \div Len(result)) + 1][2])]

\* line 130: result = [dict(r, **ci) for r in result for ci in cross_items]
CrossStep(result, items) ==
    [k \in 1..(Len(result) * Len(items)) |->
        DictSet(result[((k - 1) \div Len(items)) + 1],
                items[((k - 1) % Len(items)) + 1][1],
                items[((k - 1) % Len(items)) + 1][2])]

RECURSIVE CrossFold(_, _)
CrossFold(result, groups) ==
    IF groups = <<>> THEN result
    ELSE CrossFold(CrossStep(result, cross_items(Head(groups)[2])), Tail(groups))

\* line 125: a bare dict is a list of one group
CrossGroups(cross_vals) ==
    IF Kind(cross_vals) = "dict" THEN <<cross_vals>> ELSE cross_vals[2]

\* line 129 reads the first value of every group: an empty dict has none
CrossIndexError(cross_vals) ==
    /\ Kind(cross_vals) \in {"dict", "list"}
    /\ \A i \in DOMAIN CrossGroups(cross_vals) : Kind(CrossGroups(cross_vals)[i]) = "dict"
    /\ \E i \in DOMAIN CrossGroups(cross_vals) : CrossGroups(cross_vals)[i][2] = <<>>

\* lines 123-132
process_cross(cross_vals) ==
    IF cross_vals = NoneV THEN << <<>> >>
    ELSE IF /\ Kind(cross_vals) \in {"dict", "list"}
            /\ \A i \in DOMAIN CrossGroups(cross_vals) :
                   Kind(CrossGroups(cross_vals)[i]) = "dict"
         THEN CrossFold(<< <<>> >>, CrossGroups(cross_vals))
         ELSE << <<>> >>

\* lines 136-142: the shape check of the cross argument
CrossShapeError(c) ==
    /\ c # NoneV
    /\ \/ Kind(c) = "dict" /\ Len(c[2]) > 1
       \/ /\ Kind(c) = "list"
          /\ ~ \A i \in DOMAIN c[2] : Kind(c[2][i]) = "dict" /\ Len(c[2][i][2]) = 1
       \/ Kind(c) \notin {"dict", "list"}

\* line 146 reading z[0] for every key
ZipFinal_firstcol(keys, zipped, crossed) ==
    [k \in 1..(Len(zipped) * Len(crossed)) |->
        DictUnion([i \in DOMAIN keys |->
                      <<keys[i], Str(zipped[((k - 1) \div Len(crossed)) + 1][1])>>],
                  crossed[((k - 1) % Len(crossed)) + 1])]

\* line 146
ZipFinal(keys, zipped, crossed) ==
    [k \in 1..(Len(zipped) * Len(crossed)) |->
        DictUnion([i \in DOMAIN keys |->
                      <<keys[i], Str(zipped[((k - 1) \div Len(crossed)) + 1][i])>>],
                  crossed[((k - 1) % Len(crossed)) + 1])]

\* lines 134-147
zipper(c, nv) ==
    IF nv = <<>> /\ c = NoneV THEN Ok(<< <<>> >>)
    ELSE IF CrossShapeError(c) THEN Raise("TypeError")
    ELSE IF NamedValsMismatch(nv) THEN Raise("ValueError")
    ELSE IF CrossIndexError(c) THEN Raise("IndexError")
    ELSE Ok(ZipFinal(process_named_vals(nv)[1], process_named_vals(nv)[2],
                     process_cross(c)))

(***************************************************************************)
(* Text: str.replace, str.strip, re.findall                                *)
(***************************************************************************)
StartsWith(s, t) == Len(s) >= Len(t) /\ SubSeq(s, 1, Len(t)) = t
Drop(s, n)       == SubSeq(s, n + 1, Len(s))

\* s.replace(old, new) for a non-empty old: leftmost occurrences, no overlap,
\* inserted text is not scanned again
RECURSIVE Replace(_, _, _)
Replace(s, old, new) ==
    IF Len(s) < Len(old) THEN s
    ELSE IF StartsWith(s, old) THEN new \o Replace(Drop(s, Len(old)), old, new)
    ELSE <<s[1]>> \o Replace(Tail(s), old, new)

Whitespace == {" ", "\n", "\t"}

RECURSIVE LStrip(_)
LStrip(s) == IF s # <<>> /\ s[1] \in Whitespace THEN LStrip(Tail(s)) ELSE s
RECURSIVE RStrip(_)
RStrip(s) ==
    IF s # <<>> /\ s[Len(s)] \in Whitespace THEN RStrip(SubSeq(s, 1, Len(s) - 1)) ELSE s
\* s.strip()
Strip(s) == RStrip(LStrip(s))

\* the length of the longest prefix of s without a brace
RECURSIVE PlainRun(_)
PlainRun(s) ==
    IF s = <<>> \/ s[1] \in {"{", "}"} THEN 0 ELSE 1 + PlainRun(Tail(s))

\* re.findall(r"\{([^{}]+)\}", s): the texts between the braces of the
\* leftmost non-overlapping brace pairs that enclose no brace
RECURSIVE FindAll(_)
FindAll(s) ==
    IF s = <<>> THEN <<>>
    ELSE IF s[1] = "{"
            /\ PlainRun(Tail(s)) >= 1
            /\ Len(s) >= PlainRun(Tail(s)) + 2
            /\ s[PlainRun(Tail(s)) + 2] = "}"
         THEN <<SubSeq(s, 2, PlainRun(Tail(s)) + 1)>>
                  \o FindAll(Drop(s, PlainRun(Tail(s)) + 2))
         ELSE FindAll(Tail(s))

(***************************************************************************)
(* parse_command and eval_zippered                                         *)
(***************************************************************************)
BoolV(b) == <<"bool", b>>

\* str(value) of the values a frame holds
StrOf(v) ==
    IF Kind(v) = "bool" THEN (IF v[2] THEN <<"T", "r", "u", "e">>
                                      ELSE <<"F", "a", "l", "s", "e">>)
    ELSE IF Kind(v) = "none" THEN <<"N", "o", "n", "e">>
    ELSE Str(v)

\* f"{{{key}}}"
Placeholder(key) == <<"{">> \o key \o <<"}">>

LEFTBRACE  == <<"_", "_", "_", "L", "E", "F", "T", "B", "R", "A", "C", "E", "_", "_", "_">>
RIGHTBRACE == <<"_", "_", "_", "R", "I", "G", "H", "T", "B", "R", "A", "C", "E", "_", "_", "_">>

\* lines 171-172: one replace per key, in the mapping's order
RECURSIVE SubstituteKeys(_, _)
SubstituteKeys(result, val_dict) ==
    IF val_dict = <<>> THEN result
    ELSE SubstituteKeys(Replace(result, Placeholder(Head(val_dict)[1]), Head(val_dict)[2]),
                        Tail(val_dict))

\* line 176
Protect(result) ==
    Replace(Replace(result, <<"{", "{">>, LEFTBRACE), <<"}", "}">>, RIGHTBRACE)

\* line 208
Restore(protected) ==
    Replace(Replace(protected, LEFTBRACE, <<"{">>), RIGHTBRACE, <<"}">>)

\* lines 192-194: the frames are merged outermost first, so that the frame
\* closest to eval_zippered is written last.  A frame is <<f_locals, f_globals>>.
RECURSIVE MergeFrames(_, _)
MergeFrames(all_frames, part) ==
    IF all_frames = <<>> THEN <<>>
    ELSE DictUnion(MergeFrames(Tail(all_frames), part), Head(all_frames)[part])

\* line 197 with the two halves swapped: the caller's locals written last
CombinedLocals_callerlast(all_frames, val_dict) ==
    DictUnion([i \in DOMAIN val_dict |-> <<val_dict[i][1], StrV(val_dict[i][2])>>],
              MergeFrames(all_frames, 1))

\* line 197
CombinedLocals(all_frames, val_dict) ==
    DictUnion(MergeFrames(all_frames, 1),
              [i \in DOMAIN val_dict |-> <<val_dict[i][1], StrV(val_dict[i][2])>>])

Digits   == {DigitChars[i] : i \in DOMAIN DigitChars}
Letters  == {"a", "b", "c", "d", "e", "f", "g", "h", "i", "j", "k", "l", "m",
             "n", "o", "p", "q", "r", "s", "t", "u", "v", "w", "x", "y", "z",
             "A", "B", "C", "D", "E", "F", "G", "H", "I", "J", "K", "L", "M",
             "N", "O", "P", "Q", "R", "S", "T", "U", "V", "W", "X", "Y", "Z", "_"}
IsIdentifier(e) ==
    /\ e # <<>>
    /\ e[1] \in Letters
    /\ \A i \in DOMAIN e : e[i] \in Letters \cup Digits
\* a decimal literal: digits without a leading zero, or zeros only
IsDecimal(e) ==
    /\ e # <<>>
    /\ \A i \in DOMAIN e : e[i] \in Digits
    /\ e[1] # "0" \/ \A i \in DOMAIN e : e[i] = "0"

\* int(e) of a decimal literal
RECURSIVE TextToInt(_)
TextToInt(e) ==
    IF e = <<>> THEN 0
    ELSE 10 * TextToInt(SubSeq(e, 1, Len(e) - 1))
         + (CHOOSE d \in 0..9 : DigitChars[d + 1] = e[Len(e)])

\* line 202: the value of a name or a literal
EvalAtom(e, caller_globals, combined_locals) ==
    IF IsIdentifier(e) /\ DictHas(combined_locals, e)
        THEN Ok(DictGet(combined_locals, e))
    ELSE IF IsIdentifier(e) /\ DictHas(caller_globals, e)
        THEN Ok(DictGet(caller_globals, e))
    ELSE IF IsDecimal(e) THEN Ok(IntV(TextToInt(e)))
    ELSE IF e = <<"T", "r", "u", "e">> THEN Ok(BoolV(TRUE))
    ELSE IF e = <<"F", "a", "l", "s", "e">> THEN Ok(BoolV(FALSE))
    ELSE IF e = <<"N", "o", "n", "e">> THEN Ok(NoneV)
    ELSE Raise("Exception")

\* s * n of a str
RECURSIVE Repeat(_, _)
Repeat(t, n) == IF n <= 0 THEN <<>> ELSE t \o Repeat(t, n - 1)

\* a bool counts as the int 1 or 0
IsNumber(v) == Kind(v) \in {"int", "bool"}
NumberOf(v) == IF Kind(v) = "bool" THEN (IF v[2] THEN 1 ELSE 0) ELSE v[2]

\* the * of Python with every str operand read as the number it spells
Product_numeric(a, b) ==
    LET num(v) == IF Kind(v) = "str" THEN TextToInt(v[2]) ELSE NumberOf(v)
    IN  IF Kind(a) = "none" \/ Kind(b) = "none" THEN Raise("Exception")
        ELSE Ok(IntV(num(a) * num(b)))

\* line 202: the * of Python on numbers and strs
Product(a, b) ==
    IF IsNumber(a) /\ IsNumber(b) THEN Ok(IntV(NumberOf(a) * NumberOf(b)))
    ELSE IF Kind(a) = "str" /\ IsNumber(b) THEN Ok(StrV(Repeat(a[2], NumberOf(b))))
    ELSE IF IsNumber(a) /\ Kind(b) = "str" THEN Ok(StrV(Repeat(b[2], NumberOf(a))))
    ELSE Raise("Exception")

\* the position of the first * of e, or 0
RECURSIVE StarAt(_, _)
StarAt(e, i) ==
    IF i > Len(e) THEN 0 ELSE IF e[i] = "*" THEN i ELSE StarAt(e, i + 1)

\* line 202: eval(expr, caller_globals, combined_locals) for the expressions
\* the explored templates hold: a name, a literal, or a product of two of
\* them; every other text raises (SyntaxError or NameError)
EvalValue(expr, caller_globals, combined_locals) ==
    LET e == Strip(expr)
        k == StarAt(e, 1)
        l == EvalAtom(Strip(SubSeq(e, 1, k - 1)), caller_globals, combined_locals)
        r == EvalAtom(Strip(SubSeq(e, k + 1, Len(e))), caller_globals, combined_locals)
    IN  IF k = 0 THEN EvalAtom(e, caller_globals, combined_locals)
        ELSE IF Raised(l) \/ Raised(r) THEN Raise("Exception")
        ELSE Product(l[2], r[2])

\* line 202: str(eval(...))
EvalStr(expr, caller_globals, combined_locals) ==
    IF Raised(EvalValue(expr, caller_globals, combined_locals))
    THEN Raise("Exception")
    ELSE Ok(StrOf(EvalValue(expr, caller_globals, combined_locals)[2]))

\* lines 200-205 with the except branch leaving the loop
RECURSIVE EvalMatches_abort(_, _, _, _)
EvalMatches_abort(protected, matches, caller_globals, combined_locals) ==
    IF matches = <<>> THEN protected
    ELSE IF IsOk(EvalStr(Head(matches), caller_globals, combined_locals))
         THEN EvalMatches_abort(
                 Replace(protected, Placeholder(Head(matches)),
                         EvalStr(Head(matches), caller_globals, combined_locals)[2]),
                 Tail(matches), caller_globals, combined_locals)
         ELSE protected

\* lines 200-205: an expression that raises leaves the text as it is
RECURSIVE EvalMatches(_, _, _, _)
EvalMatches(protected, matches, caller_globals, combined_locals) ==
    IF matches = <<>> THEN protected
    ELSE EvalMatches(
            IF IsOk(EvalStr(Head(matches), caller_globals, combined_locals))
            THEN Replace(protected, Placeholder(Head(matches)),
                         EvalStr(Head(matches), caller_globals, combined_locals)[2])
            ELSE protected,
            Tail(matches), caller_globals, combined_locals)

\* lines 166-209
eval_zippered(command_, val_dict, all_frames) ==
    LET result    == SubstituteKeys(command_, val_dict)
        protected == Protect(result)
    IN  Strip(Restore(EvalMatches(protected, FindAll(protected),
                                  MergeFrames(all_frames, 2),
                                  CombinedLocals(all_frames, val_dict))))

Name_command     == <<"c", "o", "m", "m", "a", "n", "d">>
Name_verbose     == <<"v", "e", "r", "b", "o", "s", "e">>
Name_lines       == <<"l", "i", "n", "e", "s">>
Name_dry_run     == <<"d", "r", "y", "_", "r", "u", "n">>
Name_strict      == <<"s", "t", "r", "i", "c", "t">>
Name_java_memory == <<"j", "a", "v", "a", "_", "m", "e", "m", "o", "r", "y">>

\* The frames between eval_zippered and the caller are frames of this module
\* and are walked like the caller's (lines 184-189).  Their locals are the
\* arguments below and cross, named_vals, zippered_vals, final_cmds, val_dict,
\* eval_zippered and old_setting; their globals are the module's imports and
\* functions.  The explored templates name none of the latter.
ParseCommandFrame(command_) ==
    << << <<Name_command, StrV(command_)>> >>, <<>> >>

ParallelZipFrame(command_, verbose_, lines_, dry_run_, strict_, java_memory_) ==
    << << <<Name_command, StrV(command_)>>, <<Name_verbose, BoolV(verbose_)>>,
          <<Name_lines, BoolV(lines_)>>, <<Name_dry_run, BoolV(dry_run_)>>,
          <<Name_strict, BoolV(strict_)>>, <<Name_java_memory, java_memory_>> >>, <<>> >>

\* pz(command, lines, strict), line 454
PzFrame(command_, lines_, strict_) ==
    << << <<Name_command, StrV(command_)>>, <<Name_lines, BoolV(lines_)>>,
          <<Name_strict, BoolV(strict_)>> >>, <<>> >>

\* line 477: pz calls parallel_zip(command, verbose=True, strict=strict)
AllFrames(entry_, command_, verbose_, lines_, dry_run_, strict_, java_memory_, frames_) ==
    IF entry_ = "parse_command" THEN <<ParseCommandFrame(command_)>> \o frames_
    ELSE IF entry_ = "parallel_zip"
        THEN <<ParseCommandFrame(command_),
               ParallelZipFrame(command_, verbose_, lines_, dry_run_, strict_, java_memory_)>>
             \o frames_
    ELSE <<ParseCommandFrame(command_),
           ParallelZipFrame(command_, TRUE, FALSE, FALSE, strict_, NoneV),
           PzFrame(command_, lines_, strict_)>> \o frames_

\* lines 212-219: zipper raises, or every combination is expanded
parse_command(command_, c, nv, all_frames) ==
    IF Raised(zipper(c, nv)) THEN zipper(c, nv)
    ELSE Ok([i \in DOMAIN zipper(c, nv)[2] |->
                eval_zippered(command_, zipper(c, nv)[2][i], all_frames)])

(***************************************************************************)
(* Inputs of the zipper calls that are explored                            *)
(***************************************************************************)
KeyA == <<"a">>
KeyB == <<"b">>
CrossKeyOf == << <<"p">>, <<"q">>, <<"r">>, <<"s">> >>

IntList(n)   == [i \in 1..n |-> IntV(i)]
StrList(n)   == [i \in 1..n |-> StrV(<<"s", DigitChars[i + 1]>>)]
CrossList(n) == [i \in 1..n |-> IntV(20 + i)]

ScalarValues == {IntV(12), StrV(<<"x", "y">>)}

LockValues ==
    ScalarValues \cup {ListV(IntList(n)) : n \in 0..MaxLen}
                 \cup {ListV(StrList(MaxLen)), TupleV(StrList(2))}

NamedChoices ==
    {<<>>} \cup {<< <<KeyA, v>> >> : v \in LockValues}
           \cup {<< <<KeyA, v>>, <<KeyB, w>> >> : v \in LockValues, w \in LockValues}

CrossValues == {StrV(<<"x", "y">>), IntV(7)} \cup {ListV(CrossList(n)) : n \in 0..MaxLen}

\* the i-th declared group names its own parameter or collides with "a"
GroupChoices(i) ==
    {DictV(<< <<k, v>> >>) : k \in {CrossKeyOf[i], KeyA}, v \in CrossValues}

RECURSIVE GroupSeqs(_)
GroupSeqs(n) ==
    IF n = 0 THEN {<<>>}
    ELSE {Append(gs, g) : gs \in GroupSeqs(n - 1), g \in GroupChoices(n)}

TwoKeyDict == DictV(<< <<CrossKeyOf[1], ListV(CrossList(2))>>,
                       <<CrossKeyOf[2], ListV(CrossList(2))>> >>)

\* cross arguments of the shapes zipper accepts
WellFormedCross ==
    {NoneV} \cup GroupChoices(1)
            \cup {ListV(gs) : gs \in UNION {GroupSeqs(n) : n \in 0..MaxGroups}}

\* cross arguments of every other shape
MalformedCross ==
    { DictV(<<>>), TwoKeyDict,
      ListV(<<DictV(<<>>)>>), ListV(<<IntV(12)>>),
      ListV(<<DictV(<< <<CrossKeyOf[1], ListV(CrossList(2))>> >>), TwoKeyDict>>),
      ListV(<<DictV(<< <<CrossKeyOf[1], ListV(CrossList(2))>> >>), StrV(<<"x", "y">>)>>),
      StrV(<<"x", "y">>), IntV(0),
      TupleV(<<DictV(<< <<CrossKeyOf[1], ListV(CrossList(2))>> >>)>>) }

CrossChoices == WellFormedCross \cup MalformedCross

(***************************************************************************)
(* The specification of one zipper call                                    *)
(***************************************************************************)
\* nothing has run
NothingRun ==
    /\ kwargs = NoneV
    /\ environ = NoneV
    /\ prior_environ = NoneV
    /\ old_setting = NoneV
    /\ proc_cmds = <<>>
    /\ proc = NoneV
    /\ runs = <<>>
    /\ ret = NoneV
    /\ printed = <<>>

\* the arguments a call leaves at their defaults
DefaultFlags ==
    /\ verbose = FALSE
    /\ lines = FALSE
    /\ dry_run = FALSE
    /\ strict = FALSE
    /\ java_memory = NoneV

ZipInit ==
    /\ pc = "zip_call"
    /\ entry = "zipper"
    /\ pieces = <<>>
    /\ named_vals \in NamedChoices
    /\ cross \in CrossChoices
    /\ DefaultFlags
    /\ frames = <<>>
    /\ zres = NoneV
    /\ cmds = NoneV
    /\ NothingRun

\* zipper(cross=cross, **named_vals) returns or raises
ZipperCall ==
    /\ pc = "zip_call"
    /\ zres' = zipper(cross, named_vals)
    /\ pc' = IF IsOk(zipper(cross, named_vals)) THEN "zip_returned" ELSE "zip_raised"
    /\ UNCHANGED <<zipVars, callVars, cmds, runVars>>

ZipNext == ZipperCall

SpecZip == ZipInit /\ [][ZipNext]_vars

(***************************************************************************)
(* The specification of one template expansion: parse_command is called    *)
(* with scalar string parameters, which zipper turns into one mapping       *)
(***************************************************************************)
MaxPieces == 3   \* most pieces in one template

KeyX   == <<"x">>
KeyY   == <<"y">>
Name_v == <<"v">>
Name_u == <<"u">>

Escaped(k) == <<"{", "{">> \o k \o <<"}", "}">>

RECURSIVE PieceSeqs(_, _)
PieceSeqs(alphabet, n) ==
    IF n = 0 THEN {<<>>}
    ELSE {Append(ps, q) : ps \in PieceSeqs(alphabet, n - 1), q \in alphabet}

Templates(alphabet) == UNION {PieceSeqs(alphabet, n) : n \in 0..MaxPieces}

\* the template of the call
command == Flatten(pieces)

ExpandPieces ==
    { <<"e">>, <<" ">>, Placeholder(KeyX), Placeholder(KeyY), Escaped(KeyX),
      Placeholder(Name_v), LEFTBRACE, RIGHTBRACE }

XValues == { <<"5">>, Placeholder(KeyY), <<"{", "7", "}">> }
YValues == { <<"6">>, Placeholder(KeyX) }

ExpandMappings ==
    {<<>>} \cup {<< <<KeyX, StrV(a)>> >> : a \in XValues}
           \cup {<< <<KeyY, StrV(b)>> >> : b \in YValues}
           \cup {<< <<KeyX, StrV(a)>>, <<KeyY, StrV(b)>> >> : a \in XValues, b \in YValues}
           \cup {<< <<KeyY, StrV(b)>>, <<KeyX, StrV(a)>> >> : a \in XValues, b \in YValues}

InnerText == <<"w">>
OuterText == <<"o">>

ExpandFrames ==
    { << <<<<>>, <<>>>> >>,
      << << << <<Name_v, StrV(InnerText)>> >>, <<>> >> >> }

ExpandInit ==
    /\ pc = "parse_call"
    /\ entry = "parse_command"
    /\ pieces \in Templates(ExpandPieces)
    /\ named_vals \in ExpandMappings
    /\ cross = NoneV
    /\ DefaultFlags
    /\ frames \in ExpandFrames
    /\ zres = NoneV
    /\ cmds = NoneV
    /\ NothingRun

\* parse_command(command, cross=cross, **named_vals), called directly or as
\* the argument of execute_command in line 428
ParseCall ==
    /\ pc = "parse_call"
    /\ cmds' = parse_command(command, cross, named_vals,
                   AllFrames(entry, command, verbose, lines, dry_run, strict,
                             java_memory, frames))
    /\ pc' = "parsed"
    /\ UNCHANGED <<zipVars, callVars, zres, runVars>>

SpecExpand == ExpandInit /\ [][ParseCall]_vars

(***************************************************************************)
(* The specification of one expansion against the caller's scope           *)
(***************************************************************************)
ScopePieces ==
    { <<"e">>, Placeholder(KeyX), Placeholder(Name_v), Placeholder(Name_lines),
      Placeholder(Name_u) }

ScopeMappings == { <<>>, << <<KeyX, StrV(<<"5">>)>> >> }

LocalsChoices  == { <<>>, << <<Name_v, StrV(InnerText)>> >>, << <<Name_lines, IntV(9)>> >> }
GlobalsChoices == { <<>>, << <<Name_v, IntV(3)>> >> }

\* one calling frame, or a calling frame below an outer frame that binds v
ScopeFrames ==
    { << <<l, g>> >> : l \in LocalsChoices, g \in GlobalsChoices }
    \cup { << <<l, g>>, << << <<Name_v, StrV(OuterText)>> >>, <<>> >> >> :
              l \in LocalsChoices, g \in GlobalsChoices }

ScopeInit ==
    /\ pc = "parse_call"
    /\ entry \in {"parse_command", "parallel_zip", "pz"}
    /\ pieces \in Templates(ScopePieces)
    /\ named_vals \in (IF entry = "pz" THEN {<<>>} ELSE ScopeMappings)
    /\ cross = NoneV
    /\ lines \in BOOLEAN
    /\ verbose = (entry = "pz")
    /\ dry_run = FALSE
    /\ strict = FALSE
    /\ java_memory = NoneV
    /\ frames \in ScopeFrames
    /\ zres = NoneV
    /\ cmds = NoneV
    /\ NothingRun

SpecScope == ScopeInit /\ [][ParseCall]_vars

(***************************************************************************)
(* The specification of a call whose cross argument is built by Cross      *)
(***************************************************************************)
CrossKeys == {CrossKeyOf[1], CrossKeyOf[2], KeyA}

\* keyword arguments: distinct names, in every order
RECURSIVE KwargSeqs(_)
KwargSeqs(n) ==
    IF n = 0 THEN {<<>>}
    ELSE {Append(kw, <<k, v>>) :
             kw \in KwargSeqs(n - 1), k \in CrossKeys, v \in CrossValues}

DistinctKeys(kw) == \A i, j \in DOMAIN kw : kw[i][1] = kw[j][1] => i = j

KwargChoices ==
    {DictV(kw) : kw \in {x \in UNION {KwargSeqs(n) : n \in 0..MaxGroups} : DistinctKeys(x)}}

CrossNamed ==
    { <<>>,
      << <<KeyA, ListV(IntList(2))>> >>,
      << <<KeyB, ListV(IntList(2))>>, <<KeyA, StrV(<<"x", "y">>)>> >> }

CrossTemplate == <<Placeholder(CrossKeyOf[1]), <<" ">>, Placeholder(CrossKeyOf[2]), Placeholder(KeyA)>>

CrossInit ==
    /\ pc = "cross_call"
    /\ entry \in {"zipper", "parallel_zip"}
    /\ pieces = (IF entry = "zipper" THEN <<>> ELSE CrossTemplate)
    /\ named_vals \in CrossNamed
    /\ cross = NoneV
    /\ DefaultFlags
    /\ frames = <<>>
    /\ zres = NoneV
    /\ cmds = NoneV
    /\ environ = NoneV
    /\ prior_environ = NoneV
    /\ old_setting = NoneV
    /\ proc_cmds = <<>>
    /\ proc = NoneV
    /\ runs = <<>>
    /\ ret = NoneV
    /\ printed = <<>>
    /\ kwargs \in KwargChoices

\* cross=Cross(**kwargs) is evaluated before the call is made
CrossCall ==
    /\ pc = "cross_call"
    /\ cross' = Cross(kwargs)
    /\ pc' = IF entry = "zipper" THEN "zip_call" ELSE "parse_call"
    /\ UNCHANGED <<named_vals, callVars, zres, cmds, runVars>>

CrossNext ==
    \/ CrossCall
    \/ ZipperCall
    \/ ParseCall

SpecCross == CrossInit /\ [][CrossNext]_vars

(***************************************************************************)
(* The specification of calls whose parameters are numbers and strs        *)
(***************************************************************************)
Name_n == <<"n">>

\* {name*2}
Doubling(name) == <<"{">> \o name \o <<"*", "2", "}">>

StringPieces ==
    { <<"e">>, Placeholder(KeyX), Doubling(KeyX), Doubling(CrossKeyOf[1]), Doubling(Name_n) }

MixedList == <<IntV(5), StrV(<<"a", "b">>)>>

StringNamed ==
    { <<>>,
      << <<KeyX, IntV(5)>> >>,
      << <<KeyX, StrV(<<"5">>)>> >>,
      << <<KeyX, ListV(MixedList)>> >>,
      << <<KeyX, TupleV(MixedList)>>, <<KeyA, IntV(12)>> >> }

StringCross ==
    { NoneV,
      DictV(<< <<CrossKeyOf[1], IntV(7)>> >>),
      ListV(<<DictV(<< <<CrossKeyOf[1], ListV(MixedList)>> >>)>>) }

\* the caller binds n to the number 5; x is bound nowhere, or to the number 7
\* by the caller's locals, by its globals, or by the locals of an outer frame
StringFrames ==
    { << << << <<Name_n, IntV(5)>> >>, <<>> >> >>,
      << << << <<Name_n, IntV(5)>>, <<KeyX, IntV(7)>> >>, <<>> >> >>,
      << << << <<Name_n, IntV(5)>> >>, << <<KeyX, IntV(7)>> >> >> >>,
      << << << <<Name_n, IntV(5)>> >>, <<>> >>, << << <<KeyX, IntV(7)>> >>, <<>> >> >> }

StringsInit ==
    /\ entry \in {"zipper", "parse_command"}
    /\ pc = (IF entry = "zipper" THEN "zip_call" ELSE "parse_call")
    /\ pieces \in (IF entry = "zipper" THEN {<<>>} ELSE Templates(StringPieces))
    /\ named_vals \in StringNamed
    /\ cross \in StringCross
    /\ DefaultFlags
    /\ frames \in StringFrames
    /\ zres = NoneV
    /\ cmds = NoneV
    /\ NothingRun

StringsNext ==
    \/ ZipperCall
    \/ ParseCall

SpecStrings == StringsInit /\ [][StringsNext]_vars

(***************************************************************************)
(* execute_command                                                         *)
(***************************************************************************)
EndsWith(s, t) == Len(s) >= Len(t) /\ SubSeq(s, Len(s) - Len(t) + 1, Len(s)) = t

\* the position of the first line break of s, or 0
RECURSIVE BreakAt(_, _)
BreakAt(s, i) ==
    IF i > Len(s) THEN 0 ELSE IF s[i] = "\n" THEN i ELSE BreakAt(s, i + 1)

\* s.splitlines(), for text whose only line boundary is "\n"
RECURSIVE SplitLines(_)
SplitLines(s) ==
    IF s = <<>> THEN <<>>
    ELSE IF BreakAt(s, 1) = 0 THEN <<s>>
    ELSE <<SubSeq(s, 1, BreakAt(s, 1) - 1)>> \o SplitLines(Drop(s, BreakAt(s, 1)))

RECURSIVE SelectNonEmpty(_)
SelectNonEmpty(ls) ==
    IF ls = <<>> THEN <<>>
    ELSE IF Head(ls) = <<>> THEN SelectNonEmpty(Tail(ls))
    ELSE <<Head(ls)>> \o SelectNonEmpty(Tail(ls))

\* line 233
StrippedLines(cmd) ==
    SelectNonEmpty([i \in DOMAIN SplitLines(cmd) |-> Strip(SplitLines(cmd)[i])])

AndAnd == <<"&", "&">>

\* lines 237-242 with the test of line 238 left out: && always inserted
RECURSIVE JoinLines_always(_, _)
JoinLines_always(joined_lines, ls) ==
    IF ls = <<>> THEN joined_lines
    ELSE IF joined_lines # <<>>
         THEN JoinLines_always([joined_lines EXCEPT ![Len(joined_lines)] =
                                    @ \o <<" ", "&", "&", " ">> \o Head(ls)], Tail(ls))
         ELSE JoinLines_always(Append(joined_lines, Head(ls)), Tail(ls))

\* lines 237-242
RECURSIVE JoinLines(_, _)
JoinLines(joined_lines, ls) ==
    IF ls = <<>> THEN joined_lines
    ELSE IF /\ joined_lines # <<>>
            /\ ~EndsWith(joined_lines[Len(joined_lines)], AndAnd)
            /\ ~StartsWith(Head(ls), AndAnd)
         THEN JoinLines([joined_lines EXCEPT ![Len(joined_lines)] =
                             @ \o <<" ", "&", "&", " ">> \o Head(ls)], Tail(ls))
         ELSE JoinLines(Append(joined_lines, Head(ls)), Tail(ls))

\* line 244 joining with a line break whatever the separator
RECURSIVE Join_linebreak(_, _)
Join_linebreak(sep, ts) ==
    IF ts = <<>> THEN <<>>
    ELSE IF Len(ts) = 1 THEN ts[1]
    ELSE ts[1] \o <<"\n">> \o Join_linebreak(sep, Tail(ts))

\* sep.join(ts)
RECURSIVE Join(_, _)
Join(sep, ts) ==
    IF ts = <<>> THEN <<>>
    ELSE IF Len(ts) = 1 THEN ts[1]
    ELSE ts[1] \o sep \o Join(sep, Tail(ts))

\* lines 231-245 without lines 234-235: a command without lines is kept
RECURSIVE ProcessedCommands_keepblank(_)
ProcessedCommands_keepblank(commands) ==
    IF commands = <<>> THEN <<>>
    ELSE <<Join(<<" ">>, JoinLines(<<>>, StrippedLines(Head(commands))))>>
             \o ProcessedCommands_keepblank(Tail(commands))

\* lines 231-245: the processed commands; a command without lines is skipped
RECURSIVE ProcessedCommands(_)
ProcessedCommands(commands) ==
    IF commands = <<>> THEN <<>>
    ELSE IF StrippedLines(Head(commands)) = <<>> THEN ProcessedCommands(Tail(commands))
    ELSE <<Join(<<" ">>, JoinLines(<<>>, StrippedLines(Head(commands))))>>
             \o ProcessedCommands(Tail(commands))

\* lines 258-259 handing over the first command only
RunnerArgv_firstonly(verbose_, processed_commands) ==
    <<"rust-parallel", "-s", ":::">> \o
        (IF processed_commands = <<>> THEN <<>> ELSE <<processed_commands[1]>>)

\* lines 258-259: the argument vector handed to subprocess.run
RunnerArgv(verbose_, processed_commands) ==
    IF verbose_
    THEN <<"rust-parallel", "-s", ":::">> \o processed_commands
    ELSE <<"rust-parallel", "-s", ":::">> \o processed_commands

(***************************************************************************)
(* parallel_zip and pz                                                     *)
(***************************************************************************)
\* a Python list of str
TextListV(ts) == ListV([i \in DOMAIN ts |-> StrV(ts[i])])

\* the truth value of a str-or-None value
Truthy(v) == v # NoneV /\ v[2] # <<>>

\* pz passes verbose=True and strict and leaves the other arguments at
\* their defaults (line 477)
VerboseArg     == IF entry = "pz" THEN TRUE ELSE verbose
LinesArg       == IF entry = "pz" THEN FALSE ELSE lines
DryRunArg      == IF entry = "pz" THEN FALSE ELSE dry_run
JavaMemoryArg  == IF entry = "pz" THEN NoneV ELSE java_memory

\* lines 423-425
SetJavaOptions ==
    /\ pc = "call"
    /\ IF Truthy(JavaMemoryArg)
       THEN /\ old_setting' = (IF environ = NoneV THEN StrV(<<>>) ELSE environ)
            /\ environ' = StrV(<<"-", "X", "m", "x">> \o JavaMemoryArg[2])
       ELSE UNCHANGED <<environ, old_setting>>
    /\ pc' = "parse"
    /\ UNCHANGED <<zipVars, callVars, zres, cmds, proc_cmds, proc, runs, ret, printed>>

\* line 428, the argument of execute_command: an exception of zipper leaves
\* parallel_zip at once
ParseStep ==
    /\ pc = "parse"
    /\ LET r == parse_command(command, cross, named_vals,
                    AllFrames(entry, command, VerboseArg, lines, DryRunArg, strict,
                              JavaMemoryArg, frames))
       IN  /\ cmds' = r
           /\ IF Raised(r)
              THEN pc' = "raised" /\ ret' = r
              ELSE pc' = "execute" /\ ret' = ret
    /\ UNCHANGED <<zipVars, callVars, zres, environ, old_setting, proc_cmds, proc,
                   runs, printed>>

\* lines 231-247 with dry_run: no process is started
ExecuteDryRun ==
    /\ pc = "execute"
    /\ DryRunArg
    /\ proc_cmds' = ProcessedCommands(cmds[2])
    /\ proc' = ListV(<<>>)
    /\ pc' = "restore"
    /\ UNCHANGED <<zipVars, callVars, zres, cmds, environ, old_setting, runs, ret, printed>>

\* what the runner may answer: <<returncode, stdout, stderr>>
RunnerResults ==
    { <<0, <<>>, <<>>>>,
      <<0, <<"a", "\n", "b", "\n">>, <<>>>>,
      <<6, <<"a", "\n", "b", "\n">>, <<>>>>,
      <<0, <<"a", "\n", "\n", "b">>, <<>>>>,
      <<6, <<>>, <<"o", "o", "p", "s">>>> }

\* lines 231-261: one subprocess.run with all processed commands
ExecuteRun ==
    /\ pc = "execute"
    /\ ~DryRunArg
    /\ proc_cmds' = ProcessedCommands(cmds[2])
    /\ runs' = Append(runs, <<RunnerArgv(VerboseArg, ProcessedCommands(cmds[2])), environ>>)
    /\ \E r \in RunnerResults : proc' = <<"proc", r[1], r[2], r[3]>>
    /\ pc' = "restore"
    /\ UNCHANGED <<zipVars, callVars, zres, cmds, environ, old_setting, ret, printed>>

\* subprocess.run raises when the runner cannot be started
ExecuteRaises ==
    /\ pc = "execute"
    /\ ~DryRunArg
    /\ proc_cmds' = ProcessedCommands(cmds[2])
    /\ runs' = Append(runs, <<RunnerArgv(VerboseArg, ProcessedCommands(cmds[2])), environ>>)
    /\ ret' = Raise("FileNotFoundError")
    /\ pc' = "raised"
    /\ UNCHANGED <<zipVars, callVars, zres, cmds, environ, old_setting, proc, printed>>

\* lines 430-434
RestoreJavaOptions ==
    /\ pc = "restore"
    /\ IF Truthy(JavaMemoryArg)
       THEN environ' = (IF Truthy(old_setting) THEN old_setting ELSE NoneV)
       ELSE UNCHANGED environ
    /\ pc' = "interpret"
    /\ UNCHANGED <<zipVars, callVars, zres, cmds, old_setting, proc_cmds, proc, runs,
                   ret, printed>>

ErrorLine(returncode) ==
    <<"p", "a", "r", "a", "l", "l", "e", "l", "_", "z", "i", "p", ":", " ", "e", "r", "r", "o", "r", " ", "w", "i", "t", "h", " ", "r", "e", "t", "u", "r", "n", " ", "c", "o", "d", "e", " ">> \o IntToText(returncode)
ErrorDetails(stderr) ==
    <<"E", "r", "r", "o", "r", " ", "d", "e", "t", "a", "i", "l", "s", ":", "\n">> \o stderr

\* lines 440-442 without the test of line 441: the error stream is not shown
ErrorReport_nodetails(returncode, stderr) == <<ErrorLine(returncode)>>

\* lines 440-442: what a strict error exit prints
ErrorReport(returncode, stderr) ==
    <<ErrorLine(returncode)>> \o (IF stderr # <<>> THEN <<ErrorDetails(stderr)>> ELSE <<>>)

\* lines 438-439 without the test of strict
StrictErrorExit_nostrict(returncode, strict_) == returncode # 0

\* lines 438-439
StrictErrorExit(returncode, strict_) == returncode # 0 /\ strict_

\* lines 445-451 with the test of lines left out
FormatResult_nolines(verbose_, lines_, stdout) ==
    IF verbose_ THEN StrV(stdout) ELSE NoneV

\* lines 445-451
FormatResult(verbose_, lines_, stdout) ==
    IF verbose_
    THEN (IF lines_ THEN TextListV(SplitLines(stdout)) ELSE StrV(stdout))
    ELSE NoneV

\* lines 436-451
Interpret ==
    /\ pc = "interpret"
    /\ IF DryRunArg
       THEN ret' = TextListV(proc_cmds) /\ printed' = printed
       ELSE IF StrictErrorExit(proc[2], strict)
       THEN /\ ret' = NoneV
            /\ printed' = printed \o ErrorReport(proc[2], proc[4])
       ELSE /\ printed' = printed
            /\ ret' = FormatResult(VerboseArg, LinesArg, proc[3])
    /\ pc' = IF entry = "pz" THEN "pz_output" ELSE "returned"
    /\ UNCHANGED <<zipVars, callVars, zres, cmds, environ, old_setting, proc_cmds, proc, runs>>

\* lines 477-480 of pz
PzReturn ==
    /\ pc = "pz_output"
    /\ ret' = IF lines /\ Truthy(ret) THEN TextListV(SplitLines(ret[2])) ELSE ret
    /\ pc' = "returned"
    /\ UNCHANGED <<zipVars, callVars, zres, cmds, environ, old_setting, proc_cmds, proc,
                   runs, printed>>

(***************************************************************************)
(* The specification of one call of parallel_zip or pz                     *)
(***************************************************************************)
CallTemplates ==
    { <<>>,
      <<<<"e", "c", "h", "o", " ">>, Placeholder(KeyA)>>,
      <<<<"e", "c", "h", "o", " ">>, Placeholder(KeyA), <<"\n">>, <<" ">>, <<"e", "c", "h", "o", " ">>, Placeholder(CrossKeyOf[1]), <<"\n">>>>,
      <<<<"\n">>, Placeholder(Name_v), <<" ">>, <<"\n">>>>,
      <<Placeholder(KeyA)>>,
      <<<<"a", " ", "&", "&">>, <<"\n">>, <<"b">>>>,
      <<<<" ", "a", " ">>, <<"\n">>, <<"\n">>, <<"&", "&", " ", "b">>, <<"\n">>, <<" ", "c", " ">>>> }

CallNamed ==
    { <<>>,
      << <<KeyA, ListV(IntList(2))>>, <<KeyB, StrV(<<"x", "y">>)>> >>,
      << <<KeyA, ListV(<<StrV(<<"s">>), StrV(<<>>), StrV(<<"t">>)>>)>> >>,
      << <<KeyA, ListV(IntList(3))>>, <<KeyB, ListV(IntList(2))>> >> }

CallCross ==
    { NoneV,
      ListV(<<DictV(<< <<CrossKeyOf[1], ListV(CrossList(2))>> >>)>>),
      DictV(<<>>),
      IntV(0) }

CallFrames == { << << << <<Name_v, StrV(InnerText)>> >>, <<>> >> >> }

Init ==
    /\ pc = "call"
    /\ entry \in {"parallel_zip", "pz"}
    /\ pieces \in CallTemplates
    /\ named_vals \in (IF entry = "pz" THEN {<<>>} ELSE CallNamed)
    /\ cross \in (IF entry = "pz" THEN {NoneV} ELSE CallCross)
    /\ verbose \in (IF entry = "pz" THEN {TRUE} ELSE BOOLEAN)
    /\ lines \in BOOLEAN
    /\ dry_run \in (IF entry = "pz" THEN {FALSE} ELSE BOOLEAN)
    /\ strict \in BOOLEAN
    /\ java_memory \in (IF entry = "pz" THEN {NoneV}
                        ELSE {NoneV, StrV(<<>>), StrV(<<"4", "g">>)})
    /\ frames \in CallFrames
    /\ zres = NoneV
    /\ cmds = NoneV
    /\ environ \in {NoneV, StrV(<<>>), StrV(<<"-", "X", "m", "x", "1", "g">>)}
    /\ prior_environ = environ
    /\ kwargs = NoneV
    /\ old_setting = NoneV
    /\ proc_cmds = <<>>
    /\ proc = NoneV
    /\ runs = <<>>
    /\ ret = NoneV
    /\ printed = <<>>

Next ==
    \/ SetJavaOptions
    \/ ParseStep
    \/ ExecuteDryRun
    \/ ExecuteRun
    \/ ExecuteRaises
    \/ RestoreJavaOptions
    \/ Interpret
    \/ PzReturn

Spec == Init /\ [][Next]_vars

(***************************************************************************)
(* What the claims about zipper speak of, stated from the call's arguments *)
(***************************************************************************)
\* the string form of a supplied scalar
TextOf(v) ==
    IF Kind(v) = "str" THEN v[2]
    ELSE IF v[2] < 10 THEN <<DigitChars[v[2] + 1]>>
    ELSE <<DigitChars[(v[2] \div 10) + 1], DigitChars[(v[2] % 10) + 1]>>

IsListLike(v) == Kind(v) \in {"list", "tuple"}
ValueCount(v) == IF IsListLike(v) THEN Len(v[2]) ELSE 1
ValueAt(v, i) == IF IsListLike(v) THEN v[2][i] ELSE v

LockLens(nv) == {ValueCount(nv[i][2]) : i \in DOMAIN nv}
\* every list has length 1 or the one common length N
LockstepCompatible(nv) == Cardinality(LockLens(nv) \ {1}) <= 1
LockstepN(nv) ==
    IF LockLens(nv) \ {1} = {} THEN 1 ELSE CHOOSE n \in LockLens(nv) \ {1} : TRUE
\* the value parameter p contributes to lockstep combination i
LockstepAt(nv, p, i) ==
    IF ValueCount(nv[p][2]) = 1 THEN ValueAt(nv[p][2], 1) ELSE ValueAt(nv[p][2], i)

IsGroup(g) == Kind(g) = "dict" /\ Len(g[2]) = 1
ValidCrossSpec(c) ==
    \/ c = NoneV
    \/ IsGroup(c)
    \/ Kind(c) = "list" /\ \A i \in DOMAIN c[2] : IsGroup(c[2][i])
DeclaredGroups(c) ==
    IF c = NoneV THEN <<>> ELSE IF Kind(c) = "dict" THEN <<c>> ELSE c[2]
GroupKey(g)   == g[2][1][1]
GroupValue(g) == g[2][1][2]

RECURSIVE GroupProduct(_)
GroupProduct(gs) ==
    IF gs = <<>> THEN 1 ELSE ValueCount(GroupValue(Head(gs))) * GroupProduct(Tail(gs))

Returned == pc \in {"zip_returned", "zip_raised"}

\* C1: for lockstep lists of length 1 or one common length N and a valid
\* cross specification, zipper returns exactly N x (product of the cross
\* groups' value counts) mappings, all with the same key set.
C1_CombinationCount ==
    (Returned /\ LockstepCompatible(named_vals) /\ ValidCrossSpec(cross)) =>
        /\ IsOk(zres)
        /\ Len(zres[2]) = LockstepN(named_vals) * GroupProduct(DeclaredGroups(cross))
        /\ \A i, j \in DOMAIN zres[2] : DictKeys(zres[2][i]) = DictKeys(zres[2][j])

C1_Witness ==
    /\ pc = "zip_returned"
    /\ LockstepN(named_vals) = 3
    /\ Len(named_vals) = 2
    /\ ValueCount(named_vals[2][2]) = 1
    /\ Len(DeclaredGroups(cross)) = 2
    /\ GroupProduct(DeclaredGroups(cross)) = 4
    /\ Len(zres[2]) = 12

\* C2: with no cross specification the i-th mapping gives every parameter
\* whose list has length N the string form of its i-th element and every
\* scalar or length-1 parameter the string form of its single value.
C2_LockstepPairing ==
    (Returned /\ cross = NoneV /\ LockstepCompatible(named_vals)) =>
        /\ IsOk(zres)
        /\ Len(zres[2]) >= LockstepN(named_vals)
        /\ \A i \in 1..LockstepN(named_vals) : \A p \in DOMAIN named_vals :
              /\ DictHas(zres[2][i], named_vals[p][1])
              /\ DictGet(zres[2][i], named_vals[p][1])
                    = TextOf(LockstepAt(named_vals, p, i))

C2_Witness ==
    /\ pc = "zip_returned"
    /\ cross = NoneV
    /\ named_vals = << <<KeyA, ListV(IntList(3))>>, <<KeyB, StrV(<<"x", "y">>)>> >>
    /\ Len(zres[2]) = 3
    /\ DictGet(zres[2][3], KeyA) = <<"3">>
    /\ \A i \in 1..3 : DictGet(zres[2][i], KeyB) = <<"x", "y">>

\* how many consecutive positions share one value of group j
RECURSIVE Stride(_, _)
Stride(gs, j) ==
    IF j >= Len(gs) THEN 1 ELSE ValueCount(GroupValue(gs[j + 1])) * Stride(gs, j + 1)

Redeclared(gs, j) == \E l \in (j + 1)..Len(gs) : GroupKey(gs[l]) = GroupKey(gs[j])

\* C3: the Combination Sequence has the lockstep index as the outermost loop
\* and the cross groups nested inside it in declaration order, the
\* last-declared group varying fastest.
C3_CombinationOrder ==
    (pc = "zip_returned" /\ LockstepCompatible(named_vals) /\ ValidCrossSpec(cross)) =>
        LET gs == DeclaredGroups(cross)
        IN  \A k \in DOMAIN zres[2] :
              /\ \A j \in DOMAIN gs : ~Redeclared(gs, j) =>
                    DictGet(zres[2][k], GroupKey(gs[j])) =
                        TextOf(ValueAt(GroupValue(gs[j]),
                            (((k - 1) \div Stride(gs, j)) % ValueCount(GroupValue(gs[j]))) + 1))
              /\ \A p \in DOMAIN named_vals :
                    (\A j \in DOMAIN gs : GroupKey(gs[j]) # named_vals[p][1]) =>
                    DictGet(zres[2][k], named_vals[p][1]) =
                        TextOf(LockstepAt(named_vals, p, ((k - 1) \div GroupProduct(gs)) + 1))

C3_Witness ==
    /\ pc = "zip_returned"
    /\ named_vals = << <<KeyA, ListV(IntList(2))>> >>
    /\ cross = ListV(<< DictV(<< <<CrossKeyOf[1], ListV(CrossList(2))>> >>),
                        DictV(<< <<CrossKeyOf[2], ListV(CrossList(2))>> >>) >>)
    /\ Len(zres[2]) = 8
    /\ zres[2][2] = << <<KeyA, <<"1">> >>, <<CrossKeyOf[1], <<"2", "1">> >>,
                       <<CrossKeyOf[2], <<"2", "2">> >> >>
    /\ zres[2][3] = << <<KeyA, <<"1">> >>, <<CrossKeyOf[1], <<"2", "2">> >>,
                       <<CrossKeyOf[2], <<"2", "1">> >> >>
    /\ zres[2][5] = << <<KeyA, <<"2">> >>, <<CrossKeyOf[1], <<"2", "1">> >>,
                       <<CrossKeyOf[2], <<"2", "1">> >> >>

\* the call has come to its end, by return or by exception
CallEnded == pc \in {"returned", "raised"}

\* two lockstep value-lists have different lengths, both above one
LengthsDiffer(nv) == ~LockstepCompatible(nv)

\* the cross arguments the shape check of zipper lets through
PassesShapeCheck(c) == ValidCrossSpec(c) \/ c = DictV(<<>>)

\* C4 as stated: parallel_zip called with two or more lockstep value-lists
\* whose lengths differ and are both greater than 1 fails with ValueError,
\* and the runner is never invoked in that call.
C4_MismatchIsValueError ==
    (entry = "parallel_zip" /\ LengthsDiffer(named_vals)) =>
        /\ runs = <<>>
        /\ CallEnded => ret = Raise("ValueError")

\* C4 amended: parallel_zip called with two or more lockstep value-lists
\* whose lengths differ and are both greater than 1 never invokes the runner
\* and fails: with ValueError when the cross argument is None, an empty dict,
\* a one-parameter dict or a list of one-parameter dicts, and with TypeError
\* for any other cross argument.
C4_MismatchFailsBeforeRunner ==
    (entry = "parallel_zip" /\ LengthsDiffer(named_vals)) =>
        /\ runs = <<>>
        /\ pc \notin {"execute", "restore", "interpret", "returned"}
        /\ CallEnded => ret = Raise(IF PassesShapeCheck(cross) THEN "ValueError"
                                                              ELSE "TypeError")

C4_Witness ==
    /\ entry = "parallel_zip"
    /\ LengthsDiffer(named_vals)
    /\ ~dry_run
    /\ cross = NoneV
    /\ pc = "raised"
    /\ ret = Raise("ValueError")
    /\ runs = <<>>

\* C5: zipper fails with the Shape Error (TypeError) for every cross argument
\* that is not None, not a dict naming exactly one parameter and not a list
\* of such dicts; no mappings are returned and no other failure is produced.
C5_MalformedCrossIsTypeError ==
    (Returned /\ ~ValidCrossSpec(cross)) => zres = Raise("TypeError")

(***************************************************************************)
(* What the claims about one call speak of                                 *)
(***************************************************************************)
\* execute_command has produced its command list
Executed == pc \in {"restore", "interpret", "pz_output", "returned"}

\* the expanded commands of the call
ExpandedCommands == cmds[2]

\* the lines of a command that survive: trimmed, blank ones discarded
SurvivingLines(cmd) ==
    LET ls == SplitLines(cmd)
        keep == {i \in DOMAIN ls : \E j \in DOMAIN ls[i] : ls[i][j] \notin Whitespace}
        nth(k) == CHOOSE i \in keep : Cardinality({j \in keep : j < i}) = k - 1
    IN  [k \in 1..Cardinality(keep) |-> Strip(ls[nth(k)])]

\* what joins surviving line i to the one after it
Connective(ls, i) ==
    IF EndsWith(ls[i], <<"&", "&">>) \/ StartsWith(ls[i + 1], <<"&", "&">>)
    THEN <<" ">>
    ELSE <<" ", "&", "&", " ">>

NormalForm(cmd) ==
    LET ls == SurvivingLines(cmd)
    IN  Flatten([k \in 1..(2 * Len(ls) - 1) |->
                    IF k % 2 = 1 THEN ls[(k + 1) \div 2] ELSE Connective(ls, k \div 2)])

\* the expansions that have a surviving line, in order
NonBlank(commands) == SelectSeq(commands, LAMBDA cmd : SurvivingLines(cmd) # <<>>)

\* C11: normalizing an expanded command trims every line, discards blank
\* lines, keeps the surviving lines in order and yields one single-line
\* command in which consecutive lines are joined by " && ", or by a single
\* space where the earlier line ends with && or the later one begins with &&.
C11_NormalizedCommand ==
    Executed =>
        /\ Len(proc_cmds) = Len(NonBlank(ExpandedCommands))
        /\ \A i \in DOMAIN proc_cmds :
              /\ proc_cmds[i] = NormalForm(NonBlank(ExpandedCommands)[i])
              /\ \A j \in DOMAIN proc_cmds[i] : proc_cmds[i][j] # "\n"

C11_Witness ==
    /\ Executed
    /\ command = <<" ", "a", " ", "\n", "\n", "&", "&", " ", "b", "\n", " ", "c", " ">>
    /\ proc_cmds = << <<"a", " ", "&", "&", " ", "b", " ", "&", "&", " ", "c">> >>

\* the normalized command list of the call
NormalizedList ==
    [i \in DOMAIN NonBlank(ExpandedCommands) |-> NormalForm(NonBlank(ExpandedCommands)[i])]

\* C12: with dry_run=True parallel_zip returns the normalized command list
\* whatever verbose, lines and strict are, no process is ever spawned, and
\* the process-wide state is the same after the call as before it.
C12_DryRunHasNoEffects ==
    (entry = "parallel_zip" /\ dry_run) =>
        /\ runs = <<>>
        /\ pc = "returned" => ret = TextListV(NormalizedList)
        /\ CallEnded => environ = prior_environ

\* s without its final line break, if it has one
ChompOne(s) ==
    IF s # <<>> /\ s[Len(s)] = "\n" THEN SubSeq(s, 1, Len(s) - 1) ELSE s

\* v is the list of the lines of stdout, in order
IsLinesOf(v, stdout) ==
    /\ Kind(v) = "list"
    /\ \A i \in DOMAIN v[2] :
          Kind(v[2][i]) = "str" /\ \A j \in DOMAIN v[2][i][2] : v[2][i][2][j] # "\n"
    /\ (v[2] = <<>>) <=> (stdout = <<>>)
    /\ Join(<<"\n">>, [i \in DOMAIN v[2] |-> v[2][i][2]]) = ChompOne(stdout)

\* v is the result that verbose and lines ask for, given the captured output
ResultMatches(v, verbose_, lines_, stdout) ==
    IF ~verbose_ THEN v = NoneV
    ELSE IF ~lines_ THEN v = StrV(stdout)
    ELSE IsLinesOf(v, stdout)

\* a call of parallel_zip that ran the commands has returned
RanAndReturned == entry = "parallel_zip" /\ pc = "returned" /\ ~dry_run

\* C13: for a non-dry-run call that is not a strict error exit, verbose=False
\* returns None whatever lines is, verbose=True with lines=False returns the
\* captured standard output as one string, and verbose=True with lines=True
\* returns it split into its lines, in order.
C13_ResultFormat ==
    (RanAndReturned /\ ~(strict /\ proc[2] # 0)) =>
        ResultMatches(ret, verbose, lines, proc[3])

C13_Witness ==
    /\ RanAndReturned
    /\ verbose /\ lines /\ strict
    /\ proc[2] = 0
    /\ proc[3] = <<"a", "\n", "\n", "b">>
    /\ ret = ListV(<<StrV(<<"a">>), StrV(<<>>), StrV(<<"b">>)>>)

\* t occurs in s
Contains(s, t) == \E i \in 1..(Len(s) - Len(t) + 1) : SubSeq(s, i, i + Len(t) - 1) = t

\* C14: when the runner's exit code is non-zero and strict=True, parallel_zip
\* emits an error report containing the return code, and the captured error
\* stream when it is non-empty, and returns None even when verbose=True.
C14_StrictErrorExit ==
    (RanAndReturned /\ strict /\ proc[2] # 0) =>
        /\ ret = NoneV
        /\ \E i \in DOMAIN printed : Contains(printed[i], IntToText(proc[2]))
        /\ proc[4] # <<>> => \E i \in DOMAIN printed : Contains(printed[i], proc[4])

C14_Witness ==
    /\ RanAndReturned /\ strict /\ verbose
    /\ proc[2] = 6
    /\ proc[4] = <<"o", "o", "p", "s">>
    /\ ret = NoneV
    /\ Len(printed) = 2

\* C15: when strict=False the value returned by a non-dry-run call is the
\* same function of verbose, lines and the captured output whether the exit
\* code is zero or not, no error report is emitted, and with verbose=True
\* the result is a text or a line sequence, never None.
C15_NonStrictIgnoresExitCode ==
    (RanAndReturned /\ ~strict) =>
        /\ printed = <<>>
        /\ ResultMatches(ret, verbose, lines, proc[3])
        /\ verbose => Kind(ret) \in {"str", "list"}

C15_Witness ==
    /\ RanAndReturned /\ ~strict /\ verbose /\ lines
    /\ proc[2] = 6
    /\ ret = ListV(<<StrV(<<"a">>), StrV(<<"b">>)>>)
    /\ printed = <<>>

\* C16: after any parallel_zip call made with java_memory set, on every exit
\* path, _JAVA_OPTIONS is back to its prior value, or absent if it was
\* absent before the call.
C16_JavaOptionsRestored ==
    (entry = "parallel_zip" /\ Truthy(java_memory) /\ CallEnded) =>
        environ = prior_environ

\* C17: pz returns the captured standard output as an ordered list of lines
\* when lines=True, for every output the runner can return, as one string
\* when lines=False, and None on a strict error exit.
C17_PzResult ==
    (entry = "pz" /\ pc = "returned") =>
        IF strict /\ proc[2] # 0 THEN ret = NoneV
        ELSE ResultMatches(ret, TRUE, lines, proc[3])

\* the list of single-key groups one would write by hand
HandWritten(kw) == ListV([i \in DOMAIN kw[2] |-> DictV(<< <<kw[2][i][1], kw[2][i][2]>> >>)])

CrossBuilt == kwargs # NoneV /\ pc # "cross_call"

\* C18: Cross(k1=v1, ..., kn=vn) returns the list [{k1: v1}, ..., {kn: vn}]
\* in the order the arguments were declared, each element naming exactly one
\* parameter, so zipper and parallel_zip given cross=Cross(...) produce the
\* same result as with the hand-written list of single-key groups.
C18_CrossBuildsGroups ==
    CrossBuilt =>
        /\ Kind(cross) = "list"
        /\ Len(cross[2]) = Len(kwargs[2])
        /\ \A i \in DOMAIN cross[2] :
              /\ IsGroup(cross[2][i])
              /\ cross[2][i][2][1][1] = kwargs[2][i][1]
              /\ cross[2][i][2][1][2] = kwargs[2][i][2]
        /\ ValidCrossSpec(cross)
        /\ pc \in {"zip_returned", "zip_raised"} =>
              zres = zipper(HandWritten(kwargs), named_vals)
        /\ pc = "parsed" =>
              cmds = parse_command(command, HandWritten(kwargs), named_vals,
                         AllFrames(entry, command, verbose, lines, dry_run, strict,
                                   java_memory, frames))

C18_Witness ==
    /\ CrossBuilt
    /\ pc = "parsed"
    /\ kwargs = DictV(<< <<CrossKeyOf[2], ListV(CrossList(2))>>,
                         <<CrossKeyOf[1], StrV(<<"x", "y">>)>> >>)
    /\ named_vals = <<>>
    /\ cmds = Ok(<< <<"x", "y", " ", "2", "1", "{", "a", "}">>,
                    <<"x", "y", " ", "2", "2", "{", "a", "}">> >>)

(***************************************************************************)
(* What the claims about expansion speak of, stated piece by piece         *)
(***************************************************************************)
IsPlain(t)        == \A i \in DOMAIN t : t[i] \notin {"{", "}"}
IsEscapedPiece(q) == Len(q) >= 5 /\ StartsWith(q, <<"{", "{">>)
IsNamePiece(q)    == Len(q) >= 3 /\ q[1] = "{" /\ ~IsEscapedPiece(q)
NameIn(q)         == SubSeq(q, 2, Len(q) - 1)

IsKey(nv, k)   == \E i \in DOMAIN nv : nv[i][1] = k
ValueOf(nv, k) == nv[CHOOSE i \in DOMAIN nv : nv[i][1] = k][2][2]
IsKeyPiece(nv, q) == IsNamePiece(q) /\ IsKey(nv, NameIn(q))
PlainValues(nv)   == \A i \in DOMAIN nv : IsPlain(nv[i][2][2])

\* the caller's binding of a name: the closest frame that binds it decides
FrameBinds(f, n)   == DictHas(f[1], n) \/ DictHas(f[2], n)
CallerBinds(fs, n) == \E i \in DOMAIN fs : FrameBinds(fs[i], n)
CallerValue(fs, n) ==
    LET i == CHOOSE j \in DOMAIN fs :
                 FrameBinds(fs[j], n) /\ \A l \in 1..(j - 1) : ~FrameBinds(fs[l], n)
    IN  IF DictHas(fs[i][1], n) THEN DictGet(fs[i][1], n) ELSE DictGet(fs[i][2], n)

TextOfValue(v) ==
    IF Kind(v) = "int" THEN TextOf(v)
    ELSE IF Kind(v) = "bool" THEN (IF v[2] THEN <<"T", "r", "u", "e">>
                                           ELSE <<"F", "a", "l", "s", "e">>)
    ELSE v[2]

\* the text a piece stands for: a key's placeholder for the key's value, a
\* doubled-brace span for the single-brace text, the name of a caller
\* variable for the string form of its value, anything else for itself
ImageOf(q, nv, fs) ==
    IF IsKeyPiece(nv, q) THEN ValueOf(nv, NameIn(q))
    ELSE IF IsEscapedPiece(q) THEN SubSeq(q, 2, Len(q) - 1)
    ELSE IF IsNamePiece(q) /\ CallerBinds(fs, NameIn(q))
         THEN TextOfValue(CallerValue(fs, NameIn(q)))
    ELSE q

Expected(ps, nv, fs) == Strip(Flatten([i \in DOMAIN ps |-> ImageOf(ps[i], nv, fs)]))

Parsed == pc = "parsed"

\* C6: for every key of the mapping, every occurrence of {key} in the
\* template is replaced in the expanded command by that key's string value.
C6_EveryPlaceholderReplaced ==
    (/\ Parsed
     /\ \A i \in DOMAIN pieces : IsPlain(pieces[i]) \/ IsKeyPiece(named_vals, pieces[i]))
        => cmds = Ok(<<Expected(pieces, named_vals, frames)>>)

\* C7: a template containing {{x}} expands to the literal text {x} whether
\* or not x is a key of the mapping, and the single-brace placeholders
\* elsewhere in the template are still substituted.  (Stated for mappings
\* whose values hold no brace, so that the doubled-brace span alone decides.)
C7_DoubledBracesAreLiteral ==
    (/\ Parsed
     /\ PlainValues(named_vals)
     /\ \E i \in DOMAIN pieces : IsEscapedPiece(pieces[i]))
        => cmds = Ok(<<Expected(pieces, named_vals, frames)>>)

\* the value of key k is {name}-shaped text naming another key of the mapping
NamesAnotherKey(nv, k) ==
    \E j \in DOMAIN nv : nv[j][1] # k /\ ValueOf(nv, k) = Placeholder(nv[j][1])

\* no value holds a brace, unless it is the placeholder of another key
ValuesPlainOrNaming(nv) ==
    \A i \in DOMAIN nv : IsPlain(nv[i][2][2]) \/ NamesAnotherKey(nv, nv[i][1])

\* C8: expanding a template that contains only {key} placeholders for
\* mapping keys is a single pass: text introduced by a substituted value is
\* never itself expanded, even when the value contains {name}-shaped text
\* naming another key of the mapping.
C8_SinglePassOnly ==
    (/\ Parsed
     /\ ValuesPlainOrNaming(named_vals)
     /\ \A i \in DOMAIN pieces : IsPlain(pieces[i]) \/ IsKeyPiece(named_vals, pieces[i])
     /\ \E i \in DOMAIN pieces :
           IsKeyPiece(named_vals, pieces[i]) /\ NamesAnotherKey(named_vals, NameIn(pieces[i])))
        => \E i \in DOMAIN pieces :
              /\ IsKeyPiece(named_vals, pieces[i])
              /\ NamesAnotherKey(named_vals, NameIn(pieces[i]))
              /\ cmds = Ok(<<Expected(pieces, named_vals, frames)>>)

\* C9: a {name} span whose name is not a mapping key but is a variable of
\* the environment that called parallel_zip or pz expands to the string form
\* of the caller's value, the binding closest to the caller being used.
C9_CallerVariableExpands ==
    (/\ Parsed
     /\ entry \in {"parallel_zip", "pz"}
     /\ \E i \in DOMAIN pieces : IsNamePiece(pieces[i]) /\ ~IsKeyPiece(named_vals, pieces[i])
     /\ \A i \in DOMAIN pieces :
           \/ IsPlain(pieces[i])
           \/ IsKeyPiece(named_vals, pieces[i])
           \/ IsNamePiece(pieces[i]) /\ CallerBinds(frames, NameIn(pieces[i])))
        => cmds = Ok(<<Expected(pieces, named_vals, frames)>>)

\* the evaluation of line 202, for the call in the current state
ScopeNow == AllFrames(entry, command, verbose, lines, dry_run, strict, java_memory, frames)
Evaluation(q) ==
    EvalStr(NameIn(q), MergeFrames(ScopeNow, 2),
            CombinedLocals(ScopeNow, zipper(cross, named_vals)[2][1]))
FailsToEvaluate(q) ==
    IsNamePiece(q) /\ ~IsKeyPiece(named_vals, q) /\ Raised(Evaluation(q))

\* C10: when a {...} span that matches no mapping key fails to evaluate,
\* expansion still succeeds, the span's text is left in the command
\* unchanged, and the other placeholders and expressions are still expanded.
C10_FailedSpanLeftInPlace ==
    (Parsed /\ \E i \in DOMAIN pieces : FailsToEvaluate(pieces[i])) =>
        /\ IsOk(cmds)
        /\ cmds[2] = << Strip(Flatten([i \in DOMAIN pieces |->
                          IF IsKeyPiece(named_vals, pieces[i])
                              THEN ValueOf(named_vals, NameIn(pieces[i]))
                          ELSE IF IsNamePiece(pieces[i]) /\ ~FailsToEvaluate(pieces[i])
                              THEN Evaluation(pieces[i])[2]
                          ELSE pieces[i]])) >>

C10_Witness ==
    /\ Parsed
    /\ pieces = <<Placeholder(Name_u), Placeholder(KeyX), Placeholder(Name_v)>>
    /\ named_vals = << <<KeyX, StrV(<<"5">>)>> >>
    /\ FailsToEvaluate(pieces[1])
    /\ cmds = Ok(<< <<"{", "u", "}", "5", "w">> >>)

\* the values supplied for parameter k, lockstep and cross alike
Supplied(k) ==
    {ValueAt(named_vals[i][2], j) :
        <<i, j>> \in {y \in (DOMAIN named_vals) \X (1..2) :
                        named_vals[y[1]][1] = k /\ y[2] <= ValueCount(named_vals[y[1]][2])}}
    \cup
    {ValueAt(GroupValue(DeclaredGroups(cross)[i]), j) :
        <<i, j>> \in {y \in (DOMAIN DeclaredGroups(cross)) \X (1..2) :
                        /\ GroupKey(DeclaredGroups(cross)[y[1]]) = k
                        /\ y[2] <= ValueCount(GroupValue(DeclaredGroups(cross)[y[1]]))}}

IsText(t) == \A i \in DOMAIN t : t[i] \in STRING

IsDoublingOf(q, k) == q = <<"{">> \o k \o <<"*", "2", "}">>

\* what a piece stands for under mapping m when every value of m is a
\* string and a key of m hides the caller's variable of that name, while the
\* caller's own variables are numbers
ImageUnder(q, m) ==
    IF \E j \in DOMAIN m : q = Placeholder(m[j][1])
        THEN m[CHOOSE j \in DOMAIN m : q = Placeholder(m[j][1])][2]
    ELSE IF \E j \in DOMAIN m : IsDoublingOf(q, m[j][1])
        THEN LET t == m[CHOOSE j \in DOMAIN m : IsDoublingOf(q, m[j][1])][2] IN t \o t
    ELSE IF \E nm \in {Name_n, KeyX} : q = Placeholder(nm) /\ CallerBinds(frames, nm)
        THEN TextOfValue(CallerValue(frames, NameIn(q)))
    ELSE IF \E nm \in {Name_n, KeyX} : IsDoublingOf(q, nm) /\ CallerBinds(frames, nm)
        THEN LET nm == CHOOSE nm \in {Name_n, KeyX} : IsDoublingOf(q, nm)
             IN  TextOf(IntV(2 * CallerValue(frames, nm)[2]))
    ELSE q

\* C19: every value in every mapping returned by zipper is a string, the
\* string form of the supplied value, for lockstep and cross parameters
\* alike; expressions evaluated against the mapping therefore see strings:
\* for a parameter supplied as the number 5, {x*2} expands to 55.
C19_ValuesAreStrings ==
    /\ pc = "zip_returned" =>
          \A i \in DOMAIN zres[2] : \A j \in DOMAIN zres[2][i] :
              /\ IsText(zres[2][i][j][2])
              /\ zres[2][i][j][2] \in {TextOfValue(v) : v \in Supplied(zres[2][i][j][1])}
    /\ Parsed =>
          LET ms == zipper(cross, named_vals)[2]
          IN  cmds = Ok([i \in DOMAIN ms |->
                           Strip(Flatten([q \in DOMAIN pieces |->
                                             ImageUnder(pieces[q], ms[i])]))])

C19_Witness ==
    /\ Parsed
    /\ named_vals = << <<KeyX, IntV(5)>> >>
    /\ cross = NoneV
    /\ pieces = <<Doubling(KeyX), <<"e">>, Placeholder(KeyX)>>
    /\ cmds = Ok(<< <<"5", "5", "e", "5">> >>)

C19_WitnessZipper ==
    /\ pc = "zip_returned"
    /\ named_vals = << <<KeyX, TupleV(MixedList)>>, <<KeyA, IntV(12)>> >>
    /\ cross = DictV(<< <<CrossKeyOf[1], IntV(7)>> >>)
    /\ zres = Ok(<< << <<KeyX, <<"5">> >>, <<KeyA, <<"1", "2">> >>, <<CrossKeyOf[1], <<"7">> >> >>,
                    << <<KeyX, <<"a", "b">> >>, <<KeyA, <<"1", "2">> >>, <<CrossKeyOf[1], <<"7">> >> >> >>)

\* C20: whenever zipper returns a Combination Sequence instead of failing,
\* every lockstep value-list supplied had length 1 or the same length N as
\* every other list longer than 1; every other combination of list lengths,
\* for lists of any length including 0, is rejected.
C20_OnlyCompatibleLengthsAccepted ==
    (Returned /\ IsOk(zres)) => LockstepCompatible(named_vals)

\* group j of the cross specification names a lockstep parameter
Collides(gs, j) == \E p \in DOMAIN named_vals : named_vals[p][1] = GroupKey(gs[j])

\* C21: when a cross group names the same parameter as a lockstep parameter,
\* zipper raises no error and every returned mapping carries the cross
\* group's value for that name.
C21_CrossKeyWins ==
    (/\ Returned
     /\ LockstepCompatible(named_vals)
     /\ ValidCrossSpec(cross)
     /\ \E j \in DOMAIN DeclaredGroups(cross) : Collides(DeclaredGroups(cross), j)) =>
        LET gs == DeclaredGroups(cross)
        IN  /\ IsOk(zres)
            /\ \A k \in DOMAIN zres[2] : \A j \in DOMAIN gs :
                  (Collides(gs, j) /\ ~Redeclared(gs, j)) =>
                     /\ Cardinality({i \in DOMAIN zres[2][k] :
                                        zres[2][k][i][1] = GroupKey(gs[j])}) = 1
                     /\ DictGet(zres[2][k], GroupKey(gs[j])) =
                           TextOf(ValueAt(GroupValue(gs[j]),
                             (((k - 1) \div Stride(gs, j)) % ValueCount(GroupValue(gs[j]))) + 1))

C21_Witness ==
    /\ pc = "zip_returned"
    /\ named_vals = << <<KeyA, ListV(IntList(2))>>, <<KeyB, StrV(<<"x", "y">>)>> >>
    /\ cross = DictV(<< <<KeyA, ListV(CrossList(2))>> >>)
    /\ Len(zres[2]) = 4
    /\ zres[2][2] = << <<KeyA, <<"2", "2">> >>, <<KeyB, <<"x", "y">> >> >>

\* C22: in an evaluated expression, a name that is both a key of the current
\* mapping and a variable of the calling environment (a local of any
\* enclosing frame or a module global) resolves to the mapping's string
\* value for the current combination.
C22_MappingBeatsCaller ==
    (/\ Parsed
     /\ IsOk(zipper(cross, named_vals))
     /\ IsKey(named_vals, KeyX)
     /\ CallerBinds(frames, KeyX)
     /\ \E q \in DOMAIN pieces : pieces[q] = Doubling(KeyX)) =>
        LET ms == zipper(cross, named_vals)[2]
        IN  /\ IsOk(cmds)
            /\ Len(cmds[2]) = Len(ms)
            /\ \A i \in DOMAIN ms :
                  cmds[2][i] =
                    Strip(Flatten([q \in DOMAIN pieces |->
                      IF pieces[q] = Doubling(KeyX)
                      THEN DictGet(ms[i], KeyX) \o DictGet(ms[i], KeyX)
                      ELSE ImageUnder(pieces[q], ms[i])]))

C22_Witness ==
    /\ Parsed
    /\ frames = << << << <<Name_n, IntV(5)>>, <<KeyX, IntV(7)>> >>, <<>> >> >>
    /\ named_vals = << <<KeyX, ListV(MixedList)>> >>
    /\ cross = NoneV
    /\ pieces = <<Doubling(KeyX), Doubling(Name_n)>>
    /\ cmds = Ok(<< <<"5", "5", "1", "0">>, <<"a", "b", "a", "b", "1", "0">> >>)

\* the expansion of the same template, mapping and caller scope by a call
\* that leaves every other argument at its default
ReferenceExpansion ==
    parse_command(command, cross, named_vals,
                  AllFrames(entry, command, entry = "pz", FALSE, FALSE, FALSE, NoneV, frames))

\* C23: two calls that supply the same template, the same mapping and the
\* same caller scope produce the same expanded commands, whatever verbose,
\* lines, dry_run, strict and java_memory are: every call expands as the
\* call with the other arguments at their defaults does.
C23_ExpansionIgnoresOtherArguments ==
    (Parsed /\ entry = "parallel_zip") => cmds = ReferenceExpansion

\* every line of the command is blank
AllBlank(cmd) == \A i \in DOMAIN cmd : cmd[i] \in {" ", "\t", "\n"}

\* the commands handed to the runner by invocation r
HandedOver(r) == SubSeq(r[1], 4, Len(r[1]))

\* ys is xs with the all-blank commands left out, in the same order
RECURSIVE IsBatchOf(_, _)
IsBatchOf(ys, xs) ==
    IF xs = <<>> THEN ys = <<>>
    ELSE IF AllBlank(Head(xs)) THEN IsBatchOf(ys, Tail(xs))
    ELSE /\ ys # <<>>
         /\ Head(ys) = NormalForm(Head(xs))
         /\ IsBatchOf(Tail(ys), Tail(xs))

\* C24: an expanded command all of whose lines are blank is absent from the
\* normalized batch: it appears neither in the dry-run list nor among the
\* commands handed to the runner, and the remaining commands keep their
\* relative order.
C24_BlankCommandsDropped ==
    Executed =>
        /\ IsBatchOf(proc_cmds, ExpandedCommands)
        /\ \A i \in DOMAIN proc_cmds : proc_cmds[i] # <<>>
        /\ \A r \in DOMAIN runs : HandedOver(runs[r]) = proc_cmds
        /\ (pc = "returned" /\ entry = "parallel_zip" /\ dry_run) =>
               ret = TextListV(proc_cmds)

C24_Witness ==
    /\ pc = "returned"
    /\ ~dry_run
    /\ ExpandedCommands = << <<"s">>, <<>>, <<"t">> >>
    /\ Len(runs) = 1
    /\ runs[1][1] = <<"rust-parallel", "-s", ":::", <<"s">>, <<"t">> >>

C24_WitnessDryRun ==
    /\ pc = "returned"
    /\ dry_run
    /\ ExpandedCommands = << <<"s">>, <<>>, <<"t">> >>
    /\ ret = ListV(<<StrV(<<"s">>), StrV(<<"t">>)>>)

\* the call runs its commands: pz always does, parallel_zip unless dry_run
RunsCommands == entry = "pz" \/ ~dry_run

\* C25: in every non-dry-run call that passes parameter validation the
\* runner is invoked exactly once, with all normalized commands of the batch
\* in order, and the interpretation of the result begins only after that
\* invocation has returned; in a dry run it is invoked zero times.
C25_RunnerInvokedOnce ==
    /\ ~RunsCommands => runs = <<>>
    /\ pc \in {"call", "parse", "execute"} => runs = <<>>
    /\ (RunsCommands /\ Executed) =>
          /\ Len(runs) = 1
          /\ HandedOver(runs[1]) = NormalizedList
          /\ Kind(proc) = "proc"
    /\ (RunsCommands /\ pc = "raised") => Len(runs) <= 1
    /\ pc \in {"call", "parse", "execute", "restore", "interpret"} =>
          ret = NoneV /\ printed = <<>>

C25_Witness ==
    /\ pc = "returned"
    /\ entry = "parallel_zip"
    /\ ~dry_run
    /\ Len(runs) = 1
    /\ runs[1][1] = <<"rust-parallel", "-s", ":::",
                       <<"e", "c", "h", "o", " ", "1">>, <<"e", "c", "h", "o", " ", "2">> >>

C25_WitnessDryRun ==
    /\ pc = "returned"
    /\ dry_run
    /\ runs = <<>>
    /\ ret = ListV(<<StrV(<<"e", "c", "h", "o", " ", "1">>), StrV(<<"e", "c", "h", "o", " ", "2">>)>>)

\* C26: in a non-dry-run call the runner invocation requests verbose runner
\* diagnostics exactly when verbose=True: for the same command batch the
\* invocation made with verbose=True differs from the one made with
\* verbose=False.
C26_VerboseRequestsDiagnostics ==
    runs # <<>> =>
        (VerboseArg <=> runs[1][1] # RunnerArgv(FALSE, HandedOver(runs[1])))

\* C27: in a call with java_memory=m that returns normally, _JAVA_OPTIONS is
\* -Xmx<m> at the moment the runner is invoked, and after the return it is in
\* exactly its prior state: the same value if it was set before the call
\* (the empty string included) and absent if it was absent; a call without
\* java_memory never changes the variable.
C27_JavaOptionsScoped ==
    /\ Truthy(JavaMemoryArg) =>
          /\ \A r \in DOMAIN runs :
                runs[r][2] = StrV(<<"-", "X", "m", "x">> \o JavaMemoryArg[2])
          /\ pc = "returned" => environ = prior_environ
    /\ ~Truthy(JavaMemoryArg) => environ = prior_environ

\* the declared groups other than group j
OtherGroups(gs, j) == SubSeq(gs, 1, j - 1) \o SubSeq(gs, j + 1, Len(gs))

\* C28: a cross group whose value is a scalar or a string is a group of
\* exactly one value: it contributes a factor of 1 to the number of
\* combinations and its string form appears in every mapping; a string is
\* never iterated character by character.
C28_ScalarCrossGroupIsOneValue ==
    (Returned /\ LockstepCompatible(named_vals) /\ ValidCrossSpec(cross)) =>
        LET gs == DeclaredGroups(cross)
        IN  \A j \in DOMAIN gs :
              Kind(GroupValue(gs[j])) \in {"str", "int"} =>
                /\ IsOk(zres)
                /\ Len(zres[2]) =
                       LockstepN(named_vals) * GroupProduct(OtherGroups(gs, j))
                /\ ~Redeclared(gs, j) =>
                       \A k \in DOMAIN zres[2] :
                          DictGet(zres[2][k], GroupKey(gs[j])) = TextOf(GroupValue(gs[j]))

C28_Witness ==
    /\ pc = "zip_returned"
    /\ named_vals = << <<KeyA, ListV(IntList(2))>> >>
    /\ cross = ListV(<<DictV(<< <<CrossKeyOf[1], StrV(<<"x", "y">>)>> >>),
                       DictV(<< <<CrossKeyOf[2], IntV(7)>> >>)>>)
    /\ zres[2] = << << <<KeyA, <<"1">> >>, <<CrossKeyOf[1], <<"x", "y">> >>, <<CrossKeyOf[2], <<"7">> >> >>,
                    << <<KeyA, <<"2">> >>, <<CrossKeyOf[1], <<"x", "y">> >>, <<CrossKeyOf[2], <<"7">> >> >> >>

\* the text holds no brace
BraceFree(s) == \A i \in DOMAIN s : s[i] \notin {"{", "}"}

\* the dry-run list of parallel_zip(cmd, dry_run=True) made by the same caller
PassedBack(cmd) ==
    LET r == parse_command(cmd, NoneV, <<>>,
                 AllFrames("parallel_zip", cmd, FALSE, FALSE, TRUE, FALSE, NoneV, frames))
    IN  ProcessedCommands(r[2])

\* C29: normalization is idempotent: a normalized command contains no line
\* break and no leading or trailing whitespace, and feeding it through the
\* normalizer again (for example by passing a dry-run output command back as
\* a placeholder-free template with dry_run=True) returns it unchanged.
C29_NormalizationIdempotent ==
    Executed =>
        /\ ProcessedCommands(proc_cmds) = proc_cmds
        /\ \A i \in DOMAIN proc_cmds :
              /\ \A j \in DOMAIN proc_cmds[i] : proc_cmds[i][j] # "\n"
              /\ Strip(proc_cmds[i]) = proc_cmds[i]
              /\ ProcessedCommands(<<proc_cmds[i]>>) = <<proc_cmds[i]>>
              /\ BraceFree(proc_cmds[i]) => PassedBack(proc_cmds[i]) = <<proc_cmds[i]>>

C29_Witness ==
    /\ pc = "returned"
    /\ entry = "parallel_zip"
    /\ dry_run
    /\ command = <<" ", "a", " ", "\n", "\n", "&", "&", " ", "b", "\n", " ", "c", " ">>
    /\ ret = ListV(<<StrV(<<"a", " ", "&", "&", " ", "b", " ", "&", "&", " ", "c">>)>>)
    /\ PassedBack(ret[2][1][2]) = <<ret[2][1][2]>>

\* C30: a template that contains no brace characters is returned by
\* parse_command unchanged apart from trimming of leading and trailing
\* whitespace, for every mapping and every template text, including text
\* that contains the sentinel tokens ___LEFTBRACE___ or ___RIGHTBRACE___.
C30_BraceFreeTemplateUnchanged ==
    (Parsed /\ BraceFree(command)) => cmds = Ok(<<Strip(command)>>)

====
